---------------------------- MODULE Spec2Model ----------------------------
(***************************************************************************)
(* Model of the onecontext Python client: the multi-file upload pipeline   *)
(* of Context.upload_files (src/src/onecontext/context.py) with its        *)
(* validation helpers, the size-bounded batching of utils.py and the       *)
(* response handling of client.py; and, each as a call of its own,         *)
(* batch_by_size, flatten_dict, Context.search, Context.list_files and the *)
(* construction of the root client (src/src/onecontext/main.py).           *)
(*                                                                         *)
(* Conventions                                                             *)
(*  - a Python str used as a dict key is a sequence of one-character       *)
(*    strings, so that "char in key" and f-string joins are computed;      *)
(*  - a JSON value is a tagged record: [t |-> "str", s, len],              *)
(*    [t |-> "dict", items], [t |-> "list", elems], [t |-> "obj"] (a       *)
(*    Python object json.dumps cannot serialise);                          *)
(*  - a dict is the sequence of its (key, value) items in insertion order. *)
(***************************************************************************)
EXTENDS Integers, Sequences, FiniteSets, TLC

(***************************************************************************)
(* Bounds of the model.                                                    *)
(***************************************************************************)
\* longest explicit file list / metadata list handed to upload_files
MaxFiles == 2
\* largest max_workers argument tried
MaxWorkers == 2
\* serialised length of a slot's string fields (urls, ids, names, keys)
SlotBaseLen == 300
\* length of the large string value used to make a slot weigh megabytes
BlobLen == 2097152
MaxItems == 4
MaxSizeMb == 3
MaxTexts == 2
MaxDirFiles == 2

(***************************************************************************)
(* Program constants.                                                      *)
(***************************************************************************)
MAX_UPLOAD == 15000

SUPPORTED_FILE_TYPES ==
    { ".pdf", ".docx", ".doc", ".epub", ".odt", ".ppt", ".pptx", ".png",
      ".jpg", ".jpeg", ".tiff", ".bmp", ".heic", ".eml", ".html", ".md",
      ".msg", ".rst", ".rtf", ".txt", ".xml" }

\* check_keys: bad_chars = [".", "-", "\\"]
bad_chars == { ".", "-", "\\" }

\* the keys the docstring of upload_files declares reserved
ReservedKeys ==
    { <<"f","i","l","e","_","n","a","m","e">>,
      <<"u","s","e","r","_","i","d">>,
      <<"f","i","l","e","_","p","a","t","h">>,
      <<"f","i","l","e","_","i","d">> }

\* Retry(total=3, backoff_factor=1, status_forcelist=[502, 503, 504])
RetryTotal == 3
status_forcelist == { 502, 503, 504 }

\* batch_by_size(upload_files_spec, 3)
BatchMaxSizeMb == 3

(***************************************************************************)
(* JSON values.                                                            *)
(***************************************************************************)
Str(name, n) == [t |-> "str", s |-> name, len |-> n]
Dict(items) == [t |-> "dict", items |-> items]
List(elems) == [t |-> "list", elems |-> elems]
Obj == [t |-> "obj"]
Item(key, value) == [k |-> key, v |-> value]

RECURSIVE SumSeq(_)
SumSeq(s) == IF s = <<>> THEN 0 ELSE Head(s) + SumSeq(Tail(s))

\* isinstance(v, dict)
IsDict(v) == v.t = "dict"

\* json.dumps(v) succeeds (no TypeError)
RECURSIVE JsonSerializable(_)
JsonSerializable(v) ==
    CASE v.t = "str" -> TRUE
      [] v.t = "obj" -> FALSE
      [] v.t = "list" -> \A i \in 1..Len(v.elems) : JsonSerializable(v.elems[i])
      [] v.t = "dict" -> \A i \in 1..Len(v.items) : JsonSerializable(v.items[i].v)

\* len(json.dumps(v).encode("utf-8")) with the default separators ", " and ": "
RECURSIVE JsonLen(_)
JsonLen(v) ==
    CASE v.t = "str" -> v.len + 2
      [] v.t = "obj" -> 0
      [] v.t = "list" ->
           2 + SumSeq([i \in 1..Len(v.elems) |-> JsonLen(v.elems[i])])
             + (IF Len(v.elems) > 1 THEN 2 * (Len(v.elems) - 1) ELSE 0)
      [] v.t = "dict" ->
           2 + SumSeq([i \in 1..Len(v.items) |->
                         Len(v.items[i].k) + 2 + 2 + JsonLen(v.items[i].v)])
             + (IF Len(v.items) > 1 THEN 2 * (Len(v.items) - 1) ELSE 0)

(***************************************************************************)
(* context.py: validation helpers.                                         *)
(***************************************************************************)
\* is_supported_file: Path(file_path).suffix in SUPPORTED_FILE_TYPES
is_supported_file(file) == file.suffix \in SUPPORTED_FILE_TYPES

\* parse_file_path: the error it raises for one path, "ok" when it returns
parse_file_path(file) ==
    IF ~file.exists THEN "FileNotFound"
    ELSE IF ~is_supported_file(file) THEN "UnsupportedFileType"
    ELSE "ok"

\* any(char in key for char in bad_chars)
HasBadChar(key) == \E i \in 1..Len(key) : key[i] \in bad_chars

\* check_keys raises ValueError on this dict: only dict values are descended
RECURSIVE check_keys_raises(_)
check_keys_raises(d) ==
    \E i \in 1..Len(d.items) :
        \/ HasBadChar(d.items[i].k)
        \/ /\ IsDict(d.items[i].v)
           /\ check_keys_raises(d.items[i].v)

\* dict(items): a later item with an equal key overwrites the value of the
\* first one and keeps the first one's position
RECURSIVE DictOf(_)
DictOf(items) ==
    IF items = <<>> THEN <<>>
    ELSE LET n == Len(items)
             last == items[n]
             init == DictOf(SubSeq(items, 1, n - 1))
         IN IF \E i \in 1..Len(init) : init[i].k = last.k
            THEN [i \in 1..Len(init) |->
                    IF init[i].k = last.k THEN last ELSE init[i]]
            ELSE Append(init, last)

\* f"{parent_key}{sep}{k}" if parent_key else k
NewKey(parent_key, sep, k) ==
    IF parent_key # <<>> THEN parent_key \o sep \o k ELSE k

\* the list `items` that flatten_dict builds before dict(items)
RECURSIVE FlattenItems(_, _, _)
\* flatten_dict(dict_, parent_key, sep)
RECURSIVE flatten_dict(_, _, _)
FlattenItems(its, parent_key, sep) ==
    IF its = <<>> THEN <<>>
    ELSE LET k == Head(its).k
             v == Head(its).v
             new_key == NewKey(parent_key, sep, k)
             here == IF IsDict(v)
                     THEN flatten_dict(v, new_key, sep).items
                     ELSE << Item(new_key, v) >>
         IN here \o FlattenItems(Tail(its), parent_key, sep)
flatten_dict(dict_, parent_key, sep) ==
    Dict(DictOf(FlattenItems(dict_.items, parent_key, sep)))

\* parse_metadata: the error it raises, "ok" when it returns
parse_metadata_error(m) ==
    IF ~JsonSerializable(m) THEN "NotSerializable"
    ELSE IF check_keys_raises(m) THEN "InvalidKey"
    ELSE "ok"

\* parse_metadata: the value it returns
parse_metadata(m, flatten) ==
    IF flatten THEN flatten_dict(m, <<>>, <<"_">>) ELSE m


(***************************************************************************)
(* utils.py: batch_by_size.                                                *)
(***************************************************************************)
\* len(json.dumps(item).encode("utf-8")) of a slot dict
ItemSize(item) == SlotBaseLen + JsonLen(item.metadataJson)

\* max_size_mb << 20
SizeLimit(max_size_mb) == max_size_mb * 1048576

\* the for loop of batch_by_size from (batch, cum_size) on: the batches yielded
RECURSIVE BatchLoop(_, _, _, _)
BatchLoop(items, batch, cum_size, size_limit) ==
    IF items = <<>>
    THEN IF batch # <<>> THEN << batch >> ELSE <<>>
    ELSE LET item == Head(items)
             item_size == ItemSize(item)
         IN IF cum_size + item_size > size_limit /\ batch # <<>>
            THEN << batch >> \o BatchLoop(Tail(items), << item >>, item_size, size_limit)
            ELSE BatchLoop(Tail(items), Append(batch, item),
                           cum_size + item_size, size_limit)

\* BatchLoop comparing the size before the item is counted
RECURSIVE BatchLoop_late(_, _, _, _)
BatchLoop_late(items, batch, cum_size, size_limit) ==
    IF items = <<>>
    THEN IF batch # <<>> THEN << batch >> ELSE <<>>
    ELSE LET item == Head(items)
             item_size == ItemSize(item)
         IN IF cum_size > size_limit /\ batch # <<>>
            THEN << batch >> \o BatchLoop_late(Tail(items), << item >>, item_size, size_limit)
            ELSE BatchLoop_late(Tail(items), Append(batch, item),
                                cum_size + item_size, size_limit)

\* BatchLoop closing the batch when the cap is reached, not when it is exceeded
RECURSIVE BatchLoop_at_cap(_, _, _, _)
BatchLoop_at_cap(items, batch, cum_size, size_limit) ==
    IF items = <<>>
    THEN IF batch # <<>> THEN << batch >> ELSE <<>>
    ELSE LET item == Head(items)
             item_size == ItemSize(item)
         IN IF cum_size + item_size >= size_limit /\ batch # <<>>
            THEN << batch >> \o BatchLoop_at_cap(Tail(items), << item >>, item_size, size_limit)
            ELSE BatchLoop_at_cap(Tail(items), Append(batch, item),
                                  cum_size + item_size, size_limit)

batch_by_size_at_cap(items, max_size_mb) ==
    BatchLoop_at_cap(items, <<>>, 0, SizeLimit(max_size_mb))

\* BatchLoop without the "and batch" of line 10
RECURSIVE BatchLoop_no_batch_test(_, _, _, _)
BatchLoop_no_batch_test(items, batch, cum_size, size_limit) ==
    IF items = <<>>
    THEN IF batch # <<>> THEN << batch >> ELSE <<>>
    ELSE LET item == Head(items)
             item_size == ItemSize(item)
         IN IF cum_size + item_size > size_limit
            THEN << batch >> \o BatchLoop_no_batch_test(Tail(items), << item >>, item_size, size_limit)
            ELSE BatchLoop_no_batch_test(Tail(items), Append(batch, item),
                                         cum_size + item_size, size_limit)

batch_by_size_no_batch_test(items, max_size_mb) ==
    BatchLoop_no_batch_test(items, <<>>, 0, SizeLimit(max_size_mb))

batch_by_size_late(items, max_size_mb) ==
    BatchLoop_late(items, <<>>, 0, SizeLimit(max_size_mb))

\* batch_by_size without lines 16-17: the batch being filled is never yielded
batch_by_size_no_tail(items, max_size_mb) ==
    LET all == BatchLoop(items, <<>>, 0, SizeLimit(max_size_mb))
    IN IF all = <<>> THEN <<>> ELSE SubSeq(all, 1, Len(all) - 1)

batch_by_size(items, max_size_mb) ==
    BatchLoop(items, <<>>, 0, SizeLimit(max_size_mb))

(***************************************************************************)
(* client.py: ApiClient._handle_response.                                  *)
(* A response is [ok, status_code, body]: body names what response.json()  *)
(* yields: "detail" a JSON object with a non-empty detail field, "error" a *)
(* JSON object with error/message fields only, "not_json" a body that does *)
(* not parse, "empty_detail" a JSON object whose detail is "" or [],       *)
(* "object" a JSON object with none of these fields, "array" a JSON array. *)
(***************************************************************************)
ResponseBodies == { "detail", "error", "not_json" }
OtherBodies == { "empty_detail", "object", "array" }
\* status codes for which response.ok is False
ErrorStatuses == { 404, 500 }
ErrorResponses == [ok : {FALSE}, status_code : ErrorStatuses, body : ResponseBodies]
AllErrorResponses ==
    [ok : {FALSE}, status_code : ErrorStatuses, body : ResponseBodies \cup OtherBodies]
OkResponse == [ok |-> TRUE, status_code |-> 200, body |-> "json"]
NoResponse == [ok |-> TRUE, status_code |-> 0, body |-> "none"]

\* handle_response raising ApiError for a body with error/message fields too
handle_response_any_field(response) ==
    IF ~response.ok
    THEN IF response.body = "array" THEN "AttributeError"
         ELSE IF response.body \in { "detail", "error" } THEN "ApiError"
         ELSE "HTTPError"
    ELSE "json"

\* the exception _handle_response raises, "json" when it returns response_json
\* (a JSON array has no .get: line 100 raises AttributeError)
handle_response(response) ==
    IF ~response.ok
    THEN IF response.body = "array" THEN "AttributeError"
         ELSE IF response.body = "detail" THEN "ApiError"
         ELSE "HTTPError"
    ELSE "json"

\* what the exception carries: ApiError(f"{status_code}: {error_msg}"), the
\* HTTPError of raise_for_status with the status code, AttributeError neither
handle_response_exception(response) ==
    [type |-> handle_response(response),
     status_code |-> IF handle_response(response) \in { "ApiError", "HTTPError" }
                     THEN response.status_code ELSE 0,
     message |-> IF handle_response(response) = "ApiError" THEN response.body ELSE ""]

(***************************************************************************)
(* context.py: Context._upload_file, one PUT through a session whose       *)
(* https adapter retries with Retry(total=3, status_forcelist).            *)
(* `history` is the statuses received so far for this file, the last one   *)
(* being the response just received.                                       *)
(***************************************************************************)
StorageStatuses == { 200, 404, 503 }

Last(s) == s[Len(s)]

\* IsRetried with the budget off by one
IsRetried_one_more(history) ==
    /\ Last(history) \in status_forcelist
    /\ Len(history) - 1 <= RetryTotal

\* IsRetried retrying on every status but 200
IsRetried_any_failure(history) ==
    /\ Last(history) # 200
    /\ Len(history) - 1 < RetryTotal

\* the adapter sends the request again: the status is in the forcelist and
\* fewer than `total` retries were made so far
IsRetried(history) ==
    /\ Last(history) \in status_forcelist
    /\ Len(history) - 1 < RetryTotal

\* upload_file_outcome judging the first response instead of the final one
upload_file_outcome_first(history) ==
    IF Len(history) > RetryTotal /\ Last(history) \in status_forcelist THEN "RetryError"
    ELSE IF history[1] # 200 THEN "UploadFailed"
    ELSE "ok"

\* what _upload_file does once the session stops retrying
upload_file_outcome(history) ==
    IF Last(history) \in status_forcelist THEN "RetryError"
    ELSE IF Last(history) # 200 THEN "UploadFailed"
    ELSE "ok"

(***************************************************************************)
(* concurrent.futures: executor.map over a ThreadPoolExecutor, consumed by *)
(* list(...) inside the with block.  A future is "pending", "running",     *)
(* "ok", "cancelled" or the name of the exception it holds.                *)
(***************************************************************************)
FutureFailed(f) == f \notin { "pending", "running", "ok", "cancelled" }

NumRunning(fs) == Cardinality({ i \in 1..Len(fs) : fs[i] = "running" })

\* CanStart in a pool whose workers never take an item off the queue
CanStart_no_worker(fs, i, workers) ==
    /\ i \in 1..Len(fs)
    /\ fs[i] = "pending"
    /\ \A j \in 1..(i - 1) : fs[j] # "pending"
    /\ NumRunning(fs) < 0

\* a worker thread takes the next work item off the FIFO queue
CanStart(fs, i, workers) ==
    /\ i \in 1..Len(fs)
    /\ fs[i] = "pending"
    /\ \A j \in 1..(i - 1) : fs[j] # "pending"
    /\ NumRunning(fs) < workers

\* FirstRaising taking the results as the futures complete
FirstRaising_as_completed(fs) == { i \in 1..Len(fs) : FutureFailed(fs[i]) }

\* the future whose result() raises in list(...): the first in input order
\* that holds an exception, every earlier one having returned
FirstRaising(fs) ==
    { i \in 1..Len(fs) : FutureFailed(fs[i]) /\ \A j \in 1..(i - 1) : fs[j] = "ok" }

\* CancelPending stopping the running transfers as well
CancelPending_running(fs) ==
    [i \in 1..Len(fs) |-> IF fs[i] \in { "pending", "running" } THEN "cancelled" ELSE fs[i]]

\* result_iterator's finally: future.cancel() on every future not yet started
CancelPending(fs) ==
    [i \in 1..Len(fs) |-> IF fs[i] = "pending" THEN "cancelled" ELSE fs[i]]

\* AllOk when the results of the map are never consumed: exceptions are lost
AllOk_unconsumed(fs) == \A i \in 1..Len(fs) : fs[i] \notin { "pending", "running" }

\* list(...) returned: every future returned without an exception
AllOk(fs) == \A i \in 1..Len(fs) : fs[i] = "ok"

(***************************************************************************)
(* Inputs tried.                                                           *)
(***************************************************************************)
\* the i-th path of file_paths: its name is its position in the list
File(i, suffix, exists) == [name |-> i, suffix |-> suffix, exists |-> exists]

\* what a path may be: a text file, a file of an unsupported type, no file
FileKinds == { << ".txt", TRUE >>, << ".exe", TRUE >>, << ".txt", FALSE >> }

FileLists ==
    { [i \in 1..Len(kinds) |-> File(i, kinds[i][1], kinds[i][2])] :
        kinds \in UNION { [1..m -> FileKinds] : m \in 0..MaxFiles } }

\* {"tag": "v1"}
meta_tag == Dict(<< Item(<<"t","a","g">>, Str("v1", 2)) >>)
\* {"a": {"b": "<BlobLen characters>"}, "c": [{"d.e": "v4"}]}
meta_nested ==
    Dict(<< Item(<<"a">>, Dict(<< Item(<<"b">>, Str("v2", BlobLen)) >>)),
            Item(<<"c">>, List(<< Dict(<< Item(<<"d",".","e">>, Str("v4", 2)) >>) >>)) >>)
\* {"blob": "<BlobLen characters>"}
meta_blob == Dict(<< Item(<<"b","l","o","b">>, Str("blob", BlobLen)) >>)
\* {"file_id": "<BlobLen characters>"}
meta_reserved == Dict(<< Item(<<"f","i","l","e","_","i","d">>, Str("v3", BlobLen)) >>)
\* {"a.b": "v5"}
meta_bad_top == Dict(<< Item(<<"a",".","b">>, Str("v5", 2)) >>)
\* {"a": {"b-c": "v6"}}
meta_bad_nested == Dict(<< Item(<<"a">>, Dict(<< Item(<<"b","-","c">>, Str("v6", 2)) >>)) >>)
\* {"a": object()}
meta_object == Dict(<< Item(<<"a">>, Obj) >>)

MetaSamples ==
    { meta_nested, meta_reserved,
      meta_bad_top, meta_bad_nested, meta_object }

SeqsUpTo(S, n) == UNION { [1..m -> S] : m \in 0..n }

\* further well-formed paths appended to the explicit list: none, or so many
\* that the list is longer than MAX_UPLOAD
ExtraPaths == { 0, MAX_UPLOAD + 1 }

(***************************************************************************)
(* context.py: Context.upload_files, lines 297-310 (validation).           *)
(***************************************************************************)
RECURSIVE FirstError(_)
\* the exception of the first element of a comprehension that raises
FirstError(errs) ==
    IF errs = <<>> THEN "ok"
    ELSE IF Head(errs) # "ok" THEN Head(errs)
    ELSE FirstError(Tail(errs))

\* if not metadata: metadata = [{} for _ in _file_paths]
DefaultMetadata(F, M) ==
    IF M = <<>> THEN [i \in 1..Len(F) |-> Dict(<<>>)] ELSE M

\* upload_files_validation without the count check of line 302
upload_files_validation_no_count(F, extra, M) ==
    IF Len(F) + extra > MAX_UPLOAD THEN "TooManyFiles"
    ELSE IF FirstError([i \in 1..Len(F) |-> parse_file_path(F[i])]) # "ok"
    THEN FirstError([i \in 1..Len(F) |-> parse_file_path(F[i])])
    ELSE FirstError([i \in 1..Len(DefaultMetadata(F, M)) |->
                        parse_metadata_error(DefaultMetadata(F, M)[i])])

\* the ValueError upload_files raises before line 312, "ok" when it raises none
upload_files_validation(F, extra, M) ==
    IF Len(F) + extra > MAX_UPLOAD THEN "TooManyFiles"
    ELSE IF FirstError([i \in 1..Len(F) |-> parse_file_path(F[i])]) # "ok"
    THEN FirstError([i \in 1..Len(F) |-> parse_file_path(F[i])])
    ELSE IF M # <<>> /\ Len(M) # Len(F) THEN "CountMismatch"
    ELSE FirstError([i \in 1..Len(DefaultMetadata(F, M)) |->
                        parse_metadata_error(DefaultMetadata(F, M)[i])])

\* metadata = [parse_metadata(m, flatten_metadata) for m in metadata]
ParsedMetadata(F, M, flatten) ==
    [i \in 1..Len(DefaultMetadata(F, M)) |->
        parse_metadata(DefaultMetadata(F, M)[i], flatten)]

(***************************************************************************)
(* context.py: Context._get_upload_params.                                 *)
(***************************************************************************)
\* mimetypes.guess_type(path)[0]
guess_mime_type(file) ==
    CASE file.suffix = ".txt" -> "text/plain"
      [] file.suffix = ".pdf" -> "application/pdf"
      [] OTHER -> "None"

\* the file ids of the slots the service may answer for n requested names:
\* at most one slot per name, each with a fresh id; which ids they are is
\* the service's business, and the ones used here are not the positions
SlotAnswers(n) == { [i \in 1..k |-> 100 + k - i] : k \in 0..n }

NoMetadata == [t |-> "absent"]

\* for path, params in zip(file_paths, upload_params_data): params[...] = ...
UploadParams(F, ids) ==
    [i \in 1..Len(ids) |->
        IF i <= Len(F)
        THEN [fileId |-> ids[i], fileName |-> F[i].name,
              fileType |-> guess_mime_type(F[i]), metadataJson |-> NoMetadata]
        ELSE [fileId |-> ids[i], fileName |-> "", fileType |-> "",
              metadataJson |-> NoMetadata]]

\* upload_args with one transfer per file, whatever the slots returned
NumUploadArgs_all(F, slots) == Len(F)

\* upload_args = [... for path, upload_file in zip(_file_paths, upload_files_spec)]
NumUploadArgs(F, slots) == IF Len(F) < Len(slots) THEN Len(F) ELSE Len(slots)

\* AttachMetadata giving every slot the first metadata entry
AttachMetadata_first(slots, metas) ==
    [i \in 1..Len(slots) |->
        IF metas # <<>> THEN [slots[i] EXCEPT !.metadataJson = metas[1]]
        ELSE slots[i]]

\* for uploaded_file, meta in zip(upload_files_spec, metadata):
\*     uploaded_file["metadataJson"] = meta
AttachMetadata(slots, metas) ==
    [i \in 1..Len(slots) |->
        IF i <= Len(metas) THEN [slots[i] EXCEPT !.metadataJson = metas[i]]
        ELSE slots[i]]

\* file_ids = [spec["fileId"] for spec in upload_files_spec]
FileIdsOf(slots) == [i \in 1..Len(slots) |-> slots[i].fileId]

(***************************************************************************)
(* State.                                                                  *)
(***************************************************************************)
VARIABLES
    pc,                 \* where the call to upload_files is
    file_paths,         \* argument file_paths (the explicit part)
    extra_paths,        \* number of further paths in file_paths
    metadata,           \* argument metadata (<<>> for None or [])
    flatten_metadata,   \* argument flatten_metadata
    max_workers,        \* argument max_workers
    parsed,             \* local metadata after line 308
    upload_files_spec,  \* local upload_files_spec: the slots
    uploads,            \* futures of the transfer executor.map
    attempts,           \* per file: statuses its PUTs received so far
    batches,            \* local process_uploaded_batches
    commits,            \* futures of the commit executor.map
    raised,             \* exception propagating out of a with block
    result,             \* how the call ended
    requests,           \* HTTP requests sent so far
    call,               \* the operation called, when it is not upload_files
    last_response,      \* the last response the calling thread handled
    value,              \* what that operation or _handle_response gave
    max_chunk_size,     \* argument max_chunk_size of upload_files
    tmp_files           \* files written to the temporary directory

vars == << pc, file_paths, extra_paths, metadata, flatten_metadata, max_workers,
           parsed, upload_files_spec, uploads, attempts, batches, commits,
           raised, result, requests, call, last_response, value,
           max_chunk_size, tmp_files >>

\* the state of one call to upload_files
upload_vars ==
    << file_paths, extra_paths, metadata, flatten_metadata, max_workers, parsed,
       upload_files_spec, uploads, attempts, batches, commits, raised,
       max_chunk_size, tmp_files >>

NoCall == [op |-> "none"]
NoValue == [t |-> "none"]

NoResult == [kind |-> "none", error |-> "", file |-> 0, ids |-> <<>>]
Raised(error, file) == [kind |-> "raised", error |-> error, file |-> file, ids |-> <<>>]
Returned(ids) == [kind |-> "returned", error |-> "", file |-> 0, ids |-> ids]

\* the key the ApiClient of this Context was built with (client.py:86)
client_api_key == "api_key"

\* ApiClient._auth_headers, set on the client's session by line 87
auth_headers == { [name |-> "Authorization", value |-> "Bearer " \o client_api_key] }

\* a request sent through ApiClient.session (get, post, delete): it carries
\* the session's headers
Request(op, to, i, n, files) ==
    [op |-> op, to |-> to, i |-> i, n |-> n, files |-> files,
     headers |-> auth_headers, maxChunkSize |-> 0, bytes |-> <<>>]

\* StoragePut sent on the client's session
StoragePut_client_session(i, n, content_type, bytes) ==
    [op |-> "PUT", to |-> "presigned", i |-> i, n |-> n, files |-> <<>>,
     headers |-> auth_headers \cup { [name |-> "Content-Type", value |-> content_type] },
     maxChunkSize |-> 0, bytes |-> bytes]

\* the n-th PUT of file i, lines 239-242: a new requests.Session() and
\* headers={"Content-Type": content_type}
StoragePut(i, n, content_type, bytes) ==
    [op |-> "PUT", to |-> "presigned", i |-> i, n |-> n, files |-> <<>>,
     headers |-> { [name |-> "Content-Type", value |-> content_type] },
     maxChunkSize |-> 0, bytes |-> bytes]

\* file_path.read_bytes(), line 237: what was written to the path when it
\* is a file of the temporary directory, else the bytes of the user's file
read_bytes(path) ==
    IF \E f \in tmp_files : f.name = path.name
    THEN (CHOOSE f \in tmp_files : f.name = path.name).bytes
    ELSE << "bytes" >>

\* the data of the commit request of batch b, lines 335-340
CommitRequest(b) ==
    [Request("POST", "upload_processed", b, 0, batches[b])
        EXCEPT !.maxChunkSize = max_chunk_size]

\* max_chunk_size: int = 200
DefaultMaxChunkSize == 200

Init ==
    /\ pc = "ready"
    /\ file_paths = <<>>
    /\ extra_paths = 0
    /\ metadata = <<>>
    /\ flatten_metadata = FALSE
    /\ max_workers = 1
    /\ parsed = <<>>
    /\ upload_files_spec = <<>>
    /\ uploads = <<>>
    /\ attempts = <<>>
    /\ batches = <<>>
    /\ commits = <<>>
    /\ raised = NoResult
    /\ result = NoResult
    /\ requests = {}
    /\ call = NoCall
    /\ last_response = NoResponse
    /\ value = NoValue
    /\ max_chunk_size = DefaultMaxChunkSize
    /\ tmp_files = {}

\* Validate with the metadata parsed after the slots were requested (line 308
\* after line 312)
Validate_metadata_late(F, extra, M, flatten, workers) ==
    /\ pc = "ready"
    /\ file_paths' = F
    /\ extra_paths' = extra
    /\ metadata' = M
    /\ flatten_metadata' = flatten
    /\ max_workers' = workers
    /\ IF upload_files_validation(F, extra, M) # "ok"
       THEN /\ result' = Raised(upload_files_validation(F, extra, M), 0)
            /\ pc' = "done"
            /\ parsed' = parsed
            /\ requests' =
                  IF upload_files_validation(F, extra, M) \in { "NotSerializable", "InvalidKey" }
                  THEN requests \cup { Request("POST", "upload_url", 0, 0, <<>>) }
                  ELSE requests
       ELSE /\ parsed' = ParsedMetadata(F, M, flatten)
            /\ pc' = "slots"
            /\ result' = result
            /\ requests' = requests
    /\ UNCHANGED << upload_files_spec, uploads, attempts, batches, commits, raised,
                    call, last_response, value, max_chunk_size, tmp_files >>

(***************************************************************************)
(* upload_files is called: lines 297-310.                                  *)
(***************************************************************************)
Validate(F, extra, M, flatten, workers) ==
    /\ pc = "ready"
    /\ file_paths' = F
    /\ extra_paths' = extra
    /\ metadata' = M
    /\ flatten_metadata' = flatten
    /\ max_workers' = workers
    /\ IF upload_files_validation(F, extra, M) # "ok"
       THEN /\ result' = Raised(upload_files_validation(F, extra, M), 0)
            /\ pc' = "done"
            /\ parsed' = parsed
       ELSE /\ parsed' = ParsedMetadata(F, M, flatten)
            /\ pc' = "slots"
            /\ result' = result
    /\ UNCHANGED << upload_files_spec, uploads, attempts, batches, commits,
                    raised, requests,
                    call, last_response, value, max_chunk_size, tmp_files >>

(***************************************************************************)
(* line 312: _get_upload_params posts the file names; lines 314-322 build  *)
(* upload_args and executor.map submits one transfer per argument.         *)
(***************************************************************************)
GetUploadParamsFails(response) ==
    /\ pc = "slots"
    /\ requests' = requests \cup { Request("POST", "upload_url", 0, 0, <<>>) }
    /\ result' = Raised(handle_response(response), 0)
    /\ last_response' = response
    /\ value' = handle_response_exception(response)
    /\ pc' = "done"
    /\ UNCHANGED << file_paths, extra_paths, metadata, flatten_metadata,
                    max_workers, parsed, upload_files_spec, uploads, attempts,
                    batches, commits, raised, call, max_chunk_size, tmp_files >>

GetUploadParams(ids) ==
    /\ pc = "slots"
    /\ requests' = requests \cup { Request("POST", "upload_url", 0, 0, <<>>) }
    /\ upload_files_spec' = UploadParams(file_paths, ids)
    /\ uploads' = [i \in 1..NumUploadArgs(file_paths, ids) |-> "pending"]
    /\ attempts' = [i \in 1..NumUploadArgs(file_paths, ids) |-> <<>>]
    /\ pc' = "transfer"
    /\ UNCHANGED << file_paths, extra_paths, metadata, flatten_metadata,
                    max_workers, parsed, batches, commits, raised, result,
                    call, last_response, value, max_chunk_size, tmp_files >>

(***************************************************************************)
(* Transfer phase, lines 319-327: the pool's workers run _upload_file.     *)
(***************************************************************************)
StartUpload(i) ==
    /\ pc = "transfer"
    /\ CanStart(uploads, i, max_workers)
    /\ uploads' = [uploads EXCEPT ![i] = "running"]
    /\ UNCHANGED << pc, file_paths, extra_paths, metadata, flatten_metadata,
                    max_workers, parsed, upload_files_spec, attempts, batches,
                    commits, raised, result, requests,
                    call, last_response, value, max_chunk_size, tmp_files >>

\* one PUT of file i to its presigned URL is answered with `status`
PutResponse(i, status) ==
    /\ pc = "transfer"
    /\ i \in 1..Len(uploads)
    /\ uploads[i] = "running"
    /\ LET history == Append(attempts[i], status)
       IN /\ attempts' = [attempts EXCEPT ![i] = history]
          /\ requests' = requests \cup
                { StoragePut(i, Len(history), upload_files_spec[i].fileType,
                             read_bytes(file_paths[i])) }
          /\ uploads' = [uploads EXCEPT ![i] =
                IF IsRetried(history) THEN "running"
                ELSE upload_file_outcome(history)]
    /\ UNCHANGED << pc, file_paths, extra_paths, metadata, flatten_metadata,
                    max_workers, parsed, upload_files_spec, batches, commits,
                    raised, result,
                    call, last_response, value, max_chunk_size, tmp_files >>

\* the file an exception of _upload_file names in its message (0: none)
FileNamedBy(error, i) == IF error = "UploadFailed" THEN i ELSE 0

\* list(...) reaches a future that holds an exception: the exception leaves
\* the iterator, which cancels the futures not yet started
TransferRaises(i) ==
    /\ pc = "transfer"
    /\ raised = NoResult
    /\ i \in FirstRaising(uploads)
    /\ raised' = Raised(uploads[i], FileNamedBy(uploads[i], i))
    /\ uploads' = CancelPending(uploads)
    /\ UNCHANGED << pc, file_paths, extra_paths, metadata, flatten_metadata,
                    max_workers, parsed, upload_files_spec, attempts, batches,
                    commits, result, requests,
                    call, last_response, value, max_chunk_size, tmp_files >>

\* the with block is left on the exception once the running workers are done
TransferAborts ==
    /\ pc = "transfer"
    /\ raised # NoResult
    /\ NumRunning(uploads) = 0
    /\ result' = raised
    /\ pc' = "done"
    /\ UNCHANGED << file_paths, extra_paths, metadata, flatten_metadata,
                    max_workers, parsed, upload_files_spec, uploads, attempts,
                    batches, commits, raised, requests,
                    call, last_response, value, max_chunk_size, tmp_files >>

\* lines 329-350: every transfer returned; the metadata is attached, the
\* slots are batched and executor.map submits one commit per batch
TransfersDone ==
    /\ pc = "transfer"
    /\ raised = NoResult
    /\ AllOk(uploads)
    /\ upload_files_spec' = AttachMetadata(upload_files_spec, parsed)
    /\ batches' = batch_by_size(upload_files_spec', BatchMaxSizeMb)
    /\ commits' = [b \in 1..Len(batches') |-> "pending"]
    /\ pc' = "commit"
    /\ UNCHANGED << file_paths, extra_paths, metadata, flatten_metadata,
                    max_workers, parsed, uploads, attempts, raised, result,
                    requests,
                    call, last_response, value, max_chunk_size, tmp_files >>

(***************************************************************************)
(* Commit phase, lines 344-355: the workers run _processes_uploaded.       *)
(***************************************************************************)
StartCommit(b) ==
    /\ pc = "commit"
    /\ CanStart(commits, b, max_workers)
    /\ commits' = [commits EXCEPT ![b] = "running"]
    /\ UNCHANGED << pc, file_paths, extra_paths, metadata, flatten_metadata,
                    max_workers, parsed, upload_files_spec, uploads, attempts,
                    batches, raised, result, requests,
                    call, last_response, value, max_chunk_size, tmp_files >>

\* the POST of batch b is answered
CommitResponse(b, response) ==
    /\ pc = "commit"
    /\ b \in 1..Len(commits)
    /\ commits[b] = "running"
    /\ requests' = requests \cup
          { CommitRequest(b) }
    /\ commits' = [commits EXCEPT ![b] =
          IF handle_response(response) = "json" THEN "ok"
          ELSE handle_response(response)]
    /\ UNCHANGED << pc, file_paths, extra_paths, metadata, flatten_metadata,
                    max_workers, parsed, upload_files_spec, uploads, attempts,
                    batches, raised, result,
                    call, last_response, value, max_chunk_size, tmp_files >>

CommitRaises(b) ==
    /\ pc = "commit"
    /\ raised = NoResult
    /\ b \in FirstRaising(commits)
    /\ raised' = Raised(commits[b], 0)
    /\ commits' = CancelPending(commits)
    /\ UNCHANGED << pc, file_paths, extra_paths, metadata, flatten_metadata,
                    max_workers, parsed, upload_files_spec, uploads, attempts,
                    batches, result, requests,
                    call, last_response, value, max_chunk_size, tmp_files >>

CommitAborts ==
    /\ pc = "commit"
    /\ raised # NoResult
    /\ NumRunning(commits) = 0
    /\ result' = raised
    /\ pc' = "done"
    /\ UNCHANGED << file_paths, extra_paths, metadata, flatten_metadata,
                    max_workers, parsed, upload_files_spec, uploads, attempts,
                    batches, commits, raised, requests,
                    call, last_response, value, max_chunk_size, tmp_files >>

\* Return when the results of the commit map are not consumed: the
\* exception of a failed batch is lost
Return_unconsumed ==
    /\ pc = "commit"
    /\ raised = NoResult
    /\ AllOk_unconsumed(commits)
    /\ result' = Returned(FileIdsOf(upload_files_spec))
    /\ pc' = "done"
    /\ UNCHANGED << file_paths, extra_paths, metadata, flatten_metadata,
                    max_workers, parsed, upload_files_spec, uploads, attempts,
                    batches, commits, raised, requests,
                    call, last_response, value, max_chunk_size, tmp_files >>

\* lines 357-359
Return ==
    /\ pc = "commit"
    /\ raised = NoResult
    /\ AllOk(commits)
    /\ result' = Returned(FileIdsOf(upload_files_spec))
    /\ pc' = "done"
    /\ UNCHANGED << file_paths, extra_paths, metadata, flatten_metadata,
                    max_workers, parsed, upload_files_spec, uploads, attempts,
                    batches, commits, raised, requests,
                    call, last_response, value, max_chunk_size, tmp_files >>

(***************************************************************************)
(* utils.py: batch_by_size called on a list of slot dicts.                 *)
(***************************************************************************)
\* {"a": "<BlobLen characters>", "b": "<BlobLen characters>"}
meta_big ==
    Dict(<< Item(<<"a">>, Str("v7", BlobLen)), Item(<<"b">>, Str("v8", BlobLen)) >>)

\* {"k": "<padding>"} in a slot dict whose json.dumps has n bytes
meta_of_size(n) == Dict(<< Item(<<"k">>, Str("pad", n - SlotBaseLen - 9)) >>)

\* slot sizes of 1 MB, 1.5 MB and 0.4 MB
Mb1 == 1048576
Mb1_5 == 1572864
Mb0_4 == 419430

BatchMetaSamples ==
    { meta_tag, meta_blob, meta_big,
      meta_of_size(Mb1), meta_of_size(Mb1_5), meta_of_size(Mb0_4) }

\* slot dicts with these metadata, the i-th with file id i
BatchItems(metas) ==
    [i \in 1..Len(metas) |->
        [fileId |-> i, fileName |-> i, fileType |-> "text/plain",
         metadataJson |-> metas[i]]]

BatchBySize(items, max_size_mb) ==
    /\ pc = "ready"
    /\ call' = [op |-> "batch_by_size", items |-> items, max_size_mb |-> max_size_mb]
    /\ value' = [t |-> "batches", batches |-> batch_by_size(items, max_size_mb)]
    /\ pc' = "done"
    /\ UNCHANGED << upload_vars, result, requests, last_response >>

(***************************************************************************)
(* context.py: flatten_dict called on a metadata dict.                     *)
(***************************************************************************)
\* {"a": {"b": {"c": "v1"}, "d": "v2"}, "e": "v3"}
flat_deep ==
    Dict(<< Item(<<"a">>, Dict(<< Item(<<"b">>, Dict(<< Item(<<"c">>, Str("v1", 2)) >>)),
                                  Item(<<"d">>, Str("v2", 2)) >>)),
            Item(<<"e">>, Str("v3", 2)) >>)
\* {"a_b": "v1", "a": {"b": "v2"}}
flat_collide ==
    Dict(<< Item(<<"a","_","b">>, Str("v1", 2)),
            Item(<<"a">>, Dict(<< Item(<<"b">>, Str("v2", 2)) >>)) >>)
\* {"": {"b": "v1"}, "c": {}}
flat_empty ==
    Dict(<< Item(<<>>, Dict(<< Item(<<"b">>, Str("v1", 2)) >>)),
            Item(<<"c">>, Dict(<<>>)) >>)

FlattenSamples == { Dict(<<>>), meta_tag, meta_nested, flat_deep, flat_collide, flat_empty }

FlattenDict(dict_) ==
    /\ pc = "ready"
    /\ call' = [op |-> "flatten_dict", dict_ |-> dict_]
    /\ value' = [t |-> "dict", dict |-> flatten_dict(dict_, <<>>, <<"_">>)]
    /\ pc' = "done"
    /\ UNCHANGED << upload_vars, result, requests, last_response >>

(***************************************************************************)
(* context.py: Context.search, lines 552-582.  A weight is counted in      *)
(* tenths: 5 is 0.5, 10 is 1, 11 is 1.1.                                   *)
(***************************************************************************)
Queries == { <<>>, <<"q">> }
Weights == { -1, 0, 5, 10, 11 }
MetadataFilters == { "None", "filters" }

\* search_validation without lines 561-562
search_validation_no_zero_check(query, semantic_weight, full_text_weight) ==
    IF query = <<>> THEN "EmptyQuery"
    ELSE IF ~(0 <= semantic_weight /\ semantic_weight <= 10) THEN "SemanticWeightRange"
    ELSE IF ~(0 <= full_text_weight /\ full_text_weight <= 10) THEN "FullTextWeightRange"
    ELSE "ok"

\* the ValueError of lines 552-562, "ok" when none is raised
search_validation(query, semantic_weight, full_text_weight) ==
    IF query = <<>> THEN "EmptyQuery"
    ELSE IF ~(0 <= semantic_weight /\ semantic_weight <= 10) THEN "SemanticWeightRange"
    ELSE IF ~(0 <= full_text_weight /\ full_text_weight <= 10) THEN "FullTextWeightRange"
    ELSE IF semantic_weight = 0 /\ full_text_weight = 0 THEN "BothWeightsZero"
    ELSE "ok"

Search(query, semantic_weight, full_text_weight, metadata_filters) ==
    /\ pc = "ready"
    /\ call' = [op |-> "search", query |-> query,
                semantic_weight |-> semantic_weight,
                full_text_weight |-> full_text_weight,
                metadata_filters |-> metadata_filters]
    /\ IF search_validation(query, semantic_weight, full_text_weight) # "ok"
       THEN /\ result' = Raised(search_validation(query, semantic_weight,
                                                  full_text_weight), 0)
            /\ pc' = "done"
       ELSE /\ result' = result
            /\ pc' = "search"
    /\ UNCHANGED << upload_vars, requests, last_response, value >>

(***************************************************************************)
(* context.py: Context.list_files, lines 176-198.  file_ids and file_names *)
(* are None or a list.                                                     *)
(***************************************************************************)
None == [t |-> "None"]
FilterLists == { None, List(<<>>), List(<< Str("f1", 2) >>) }

\* `x` is true in a condition: neither None nor an empty list
Truthy(x) == x.t # "None" /\ ~(x.t = "list" /\ x.elems = <<>>)

\* list_files_validation testing `is not None` on both
list_files_validation_not_none(file_ids, file_names) ==
    IF file_names.t # "None" /\ file_ids.t # "None" THEN "BothFilters" ELSE "ok"

\* the ValueError of lines 176-177, "ok" when none is raised
list_files_validation(file_ids, file_names) ==
    IF Truthy(file_names) /\ Truthy(file_ids) THEN "BothFilters" ELSE "ok"

ListFiles(file_ids, file_names) ==
    /\ pc = "ready"
    /\ call' = [op |-> "list_files", file_ids |-> file_ids, file_names |-> file_names]
    /\ IF list_files_validation(file_ids, file_names) # "ok"
       THEN /\ result' = Raised(list_files_validation(file_ids, file_names), 0)
            /\ pc' = "done"
       ELSE /\ result' = result
            /\ pc' = "list_files"
    /\ UNCHANGED << upload_vars, requests, last_response, value >>

(***************************************************************************)
(* client.py: ApiClient.post, lines 112-114, for the POST of search (line  *)
(* 581) and of list_files (line 179): the request is sent and its response *)
(* goes through _handle_response.                                          *)
(***************************************************************************)
PostPcs == { "search", "list_files" }

Post(response) ==
    /\ pc \in PostPcs
    /\ requests' = requests \cup
          { Request("POST", pc, 0, 1 + Cardinality(requests), <<>>) }
    /\ last_response' = response
    /\ IF handle_response(response) = "json"
       THEN /\ result' = Returned(<<>>)
            /\ value' = [t |-> "json"]
       ELSE /\ result' = Raised(handle_response(response), 0)
            /\ value' = handle_response_exception(response)
    /\ pc' = "done"
    /\ UNCHANGED << upload_vars, call >>

(***************************************************************************)
(* context.py: Context.delete_file, lines 584-586, and client.py:          *)
(* ApiClient.delete, lines 116-118.                                        *)
(***************************************************************************)
\* argument file_id
DeleteFileIds == { "file_a", "file_b" }

DeleteFile(file_id) ==
    /\ pc = "ready"
    /\ call' = [op |-> "delete_file", file_id |-> file_id]
    /\ pc' = "delete_file"
    /\ UNCHANGED << upload_vars, result, requests, last_response, value >>

Delete(response) ==
    /\ pc = "delete_file"
    /\ requests' = requests \cup
          { Request("DELETE", "context_files", 0, 1 + Cardinality(requests), <<>>) }
    /\ last_response' = response
    /\ IF handle_response(response) = "json"
       THEN /\ result' = Returned(<<>>)
            /\ value' = [t |-> "json"]
       ELSE /\ result' = Raised(handle_response(response), 0)
            /\ value' = handle_response_exception(response)
    /\ pc' = "done"
    /\ UNCHANGED << upload_vars, call >>

(***************************************************************************)
(* context.py: Context.upload_texts, lines 407-437.  A text is a sequence  *)
(* of characters, a file's content a sequence of bytes written in hex.     *)
(***************************************************************************)
\* parse_plain_text_file_name: plain_text_extensions
plain_text_extensions ==
    { ".eml", ".html", ".md", ".msg", ".rst", ".rtf", ".txt", ".xml" }

\* c.encode("utf-8") of one character
utf8(c) ==
    CASE c = "a" -> << "61" >>
      [] c = "b" -> << "62" >>
      [] c = "\n" -> << "0a" >>
      [] c = "\r" -> << "0d" >>
      [] c = "é" -> << "c3", "a9" >>

\* s.encode("utf-8")
RECURSIVE encode(_)
encode(text) == IF text = <<>> THEN <<>> ELSE utf8(Head(text)) \o encode(Tail(text))

\* the newline translation of a file opened in text mode for writing with
\* newline=None: every "\n" written becomes os.linesep
RECURSIVE translate_newlines(_, _)
translate_newlines(text, linesep) ==
    IF text = <<>> THEN <<>>
    ELSE (IF Head(text) = "\n" THEN linesep ELSE << Head(text) >>)
         \o translate_newlines(Tail(text), linesep)

\* the bytes in the file after open(file_path, "w", encoding="utf-8") and
\* f.write(content), lines 425-426
write_text(content, linesep) == encode(translate_newlines(content, linesep))

\* os.linesep: "\n" on POSIX, "\r\n" on Windows
LineSeps == { << "\n" >>, << "\r", "\n" >> }

\* "", "a\né", "b"
TextSamples == { <<>>, << "a", "\n", "é" >>, << "b" >> }

\* "a.txt", "b.pdf"
TextNames == { [stem |-> "a", suffix |-> ".txt"], [stem |-> "b", suffix |-> ".pdf"] }

TextFileNames == { None } \cup { List(names) : names \in SeqsUpTo(TextNames, MaxTexts) }

\* Path(f"{uuid.uuid4()}.txt") for the i-th content
uuid_name(i) == [stem |-> "uuid" \o ToString(i), suffix |-> ".txt"]

\* upload_texts_validation without lines 415-418
upload_texts_validation_no_empty_check(contents, file_names) ==
    IF Truthy(file_names) /\ Len(file_names.elems) # Len(contents) THEN "NamesMismatch"
    ELSE IF /\ Truthy(file_names)
            /\ \E i \in 1..Len(file_names.elems) :
                  file_names.elems[i].suffix \notin plain_text_extensions
    THEN "NotPlainText"
    ELSE "ok"

\* the ValueError of lines 407-418, "ok" when none is raised
upload_texts_validation(contents, file_names) ==
    IF Truthy(file_names) /\ Len(file_names.elems) # Len(contents) THEN "NamesMismatch"
    ELSE IF /\ Truthy(file_names)
            /\ \E i \in 1..Len(file_names.elems) :
                  file_names.elems[i].suffix \notin plain_text_extensions
    THEN "NotPlainText"
    ELSE IF \E i \in 1..Len(contents) : Len(contents[i]) = 0 THEN "EmptyString"
    ELSE "ok"

\* valid_file_names, lines 410-413
valid_file_names(contents, file_names) ==
    IF Truthy(file_names) THEN file_names.elems
    ELSE [i \in 1..Len(contents) |-> uuid_name(i)]

\* the temporary directory after the loop of lines 423-427: a file per
\* name, holding what was written to it last
written_files(contents, names, linesep) ==
    { [name |-> names[i], bytes |-> write_text(contents[i], linesep)] :
        i \in { j \in 1..Len(names) : \A k \in (j + 1)..Len(names) : names[k] # names[j] } }

\* file_paths, lines 421-427
text_file_paths(names) ==
    [i \in 1..Len(names) |-> File(names[i], names[i].suffix, TRUE)]

\* upload_texts up to the slot request of the upload_files it calls (line
\* 429) with metadata=None and max_workers=1
UploadTexts(contents, file_names, linesep) ==
    /\ pc = "ready"
    /\ call' = [op |-> "upload_texts", contents |-> contents,
                file_names |-> file_names, linesep |-> linesep]
    /\ IF upload_texts_validation(contents, file_names) # "ok"
       THEN /\ result' = Raised(upload_texts_validation(contents, file_names), 0)
            /\ pc' = "done"
            /\ UNCHANGED << tmp_files, file_paths, parsed >>
       ELSE LET names == valid_file_names(contents, file_names)
                F == text_file_paths(names)
            IN /\ tmp_files' = written_files(contents, names, linesep)
               /\ file_paths' = F
               /\ IF upload_files_validation(F, 0, <<>>) # "ok"
                  THEN /\ result' = Raised(upload_files_validation(F, 0, <<>>), 0)
                       /\ pc' = "done"
                       /\ parsed' = parsed
                  ELSE /\ result' = result
                       /\ pc' = "slots"
                       /\ parsed' = ParsedMetadata(F, <<>>, FALSE)
    /\ UNCHANGED << extra_paths, metadata, flatten_metadata, max_workers,
                    upload_files_spec, uploads, attempts, batches, commits,
                    raised, requests, last_response, value, max_chunk_size >>

(***************************************************************************)
(* context.py: Context.upload_from_directory, lines 478-501.               *)
(***************************************************************************)
\* the suffixes of the files os.walk finds in the directory
DirSuffixes == { ".txt", ".exe" }
DirListings == SeqsUpTo(DirSuffixes, MaxDirFiles)

\* argument metadata: None, {} or a dict
DirMetadata == { None, Dict(<<>>), meta_tag }

\* argument max_chunk_size
ChunkSizes == { 200, 500 }

\* files_to_upload, line 487: the supported files, in the order found
RECURSIVE SupportedSuffixes(_)
SupportedSuffixes(suffixes) ==
    IF suffixes = <<>> THEN <<>>
    ELSE (IF Head(suffixes) \in SUPPORTED_FILE_TYPES THEN << Head(suffixes) >> ELSE <<>>)
         \o SupportedSuffixes(Tail(suffixes))

files_to_upload(all_files) ==
    [i \in 1..Len(SupportedSuffixes(all_files)) |->
        File(i, SupportedSuffixes(all_files)[i], TRUE)]

\* metadata_list, line 492: [metadata] * len(files_to_upload) if metadata else None
metadata_list(dir_metadata, n) ==
    IF dir_metadata.t = "dict" /\ dir_metadata.items # <<>>
    THEN [i \in 1..n |-> dir_metadata] ELSE <<>>

\* the ValueError of lines 480-490, "ok" when none is raised
upload_from_directory_validation(is_dir, all_files) ==
    IF ~is_dir THEN "NotADirectory"
    ELSE IF files_to_upload(all_files) = <<>> THEN "NoSupportedFiles"
    ELSE "ok"

\* upload_from_directory up to the slot request of the upload_files it
\* calls on lines 494-499: max_chunk_size is not among the arguments passed,
\* upload_files runs with its default; max_workers=1
UploadFromDirectory(is_dir, all_files, dir_metadata, chunk_size) ==
    /\ pc = "ready"
    /\ call' = [op |-> "upload_from_directory", is_dir |-> is_dir,
                all_files |-> all_files, metadata |-> dir_metadata,
                max_chunk_size |-> chunk_size]
    /\ IF upload_from_directory_validation(is_dir, all_files) # "ok"
       THEN /\ result' = Raised(upload_from_directory_validation(is_dir, all_files), 0)
            /\ pc' = "done"
            /\ UNCHANGED << file_paths, metadata, parsed >>
       ELSE LET F == files_to_upload(all_files)
                M == metadata_list(dir_metadata, Len(F))
            IN /\ file_paths' = F
               /\ metadata' = M
               /\ IF upload_files_validation(F, 0, M) # "ok"
                  THEN /\ result' = Raised(upload_files_validation(F, 0, M), 0)
                       /\ pc' = "done"
                       /\ parsed' = parsed
                  ELSE /\ result' = result
                       /\ pc' = "slots"
                       /\ parsed' = ParsedMetadata(F, M, FALSE)
    /\ max_chunk_size' = DefaultMaxChunkSize
    /\ UNCHANGED << extra_paths, flatten_metadata, max_workers,
                    upload_files_spec, uploads, attempts, batches, commits,
                    raised, requests, last_response, value, tmp_files >>

(***************************************************************************)
(* main.py: OneContext.__init__, lines 33-48.  An argument or an           *)
(* environment variable is None (not passed, not set), the empty string or *)
(* a non-empty string.                                                     *)
(***************************************************************************)
\* "https://api.onecontext.ai/v1/"
DefaultBaseUrl == Str("default_url", 29)

ApiKeyArgs == { None, Str("", 0), Str("arg_key", 7) }
ApiKeyEnvs == { None, Str("", 0), Str("env_key", 7) }
BaseUrlArgs == { None, Str("", 0), Str("arg_url", 7) }
BaseUrlEnvs == { None, Str("", 0), Str("env_url", 7) }
Environs == [ONECONTEXT_API_KEY : ApiKeyEnvs, ONECONTEXT_BASE_URL : BaseUrlEnvs]

IsNone(x) == x.t = "None"

\* `x or default` takes the default: x is None or ""
Falsy(x) == IsNone(x) \/ (x.t = "str" /\ x.len = 0)

\* lines 33-34
resolve_api_key(api_key, environ) ==
    IF IsNone(api_key) THEN environ.ONECONTEXT_API_KEY ELSE api_key

\* resolve_base_url letting the environment variable override the argument
resolve_base_url_env_first(base_url, environ) ==
    LET url == IF ~IsNone(environ.ONECONTEXT_BASE_URL)
               THEN environ.ONECONTEXT_BASE_URL ELSE base_url
    IN IF Falsy(url) THEN DefaultBaseUrl ELSE url

\* lines 42-45
resolve_base_url(base_url, environ) ==
    LET url == IF IsNone(base_url) THEN environ.ONECONTEXT_BASE_URL ELSE base_url
    IN IF Falsy(url) THEN DefaultBaseUrl ELSE url

OneContext(api_key, base_url, environ) ==
    /\ pc = "ready"
    /\ call' = [op |-> "OneContext", api_key |-> api_key, base_url |-> base_url,
                environ |-> environ]
    /\ IF IsNone(resolve_api_key(api_key, environ))
       THEN /\ result' = Raised("ConfigurationError", 0)
            /\ value' = value
       ELSE /\ result' = result
            /\ value' = [t |-> "OneContext",
                         _client |-> [api_key |-> resolve_api_key(api_key, environ)],
                         _urls |-> [base_url |-> resolve_base_url(base_url, environ)]]
    /\ pc' = "done"
    /\ UNCHANGED << upload_vars, requests, last_response >>

Next ==
    \/ /\ pc = "ready"
       /\ \E F \in FileLists, extra \in ExtraPaths,
             M \in SeqsUpTo(MetaSamples, MaxFiles), flatten \in BOOLEAN,
             workers \in 1..MaxWorkers :
               Validate(F, extra, M, flatten, workers)
    \/ \E response \in ErrorResponses : GetUploadParamsFails(response)
    \/ /\ pc = "slots"
       /\ \E ids \in SlotAnswers(Len(file_paths)) : GetUploadParams(ids)
    \/ \E i \in 1..Len(uploads) : StartUpload(i)
    \/ \E i \in 1..Len(uploads), status \in StorageStatuses : PutResponse(i, status)
    \/ \E i \in 1..Len(uploads) : TransferRaises(i)
    \/ TransferAborts
    \/ TransfersDone
    \/ \E b \in 1..Len(commits) : StartCommit(b)
    \/ \E b \in 1..Len(commits), response \in ErrorResponses \cup { OkResponse } :
            CommitResponse(b, response)
    \/ \E b \in 1..Len(commits) : CommitRaises(b)
    \/ CommitAborts
    \/ Return
    \/ /\ pc = "ready"
       /\ \E metas \in SeqsUpTo(BatchMetaSamples, MaxItems), max_size_mb \in 0..MaxSizeMb :
             BatchBySize(BatchItems(metas), max_size_mb)
    \/ /\ pc = "ready"
       /\ \E dict_ \in FlattenSamples : FlattenDict(dict_)
    \/ /\ pc = "ready"
       /\ \E query \in Queries, semantic_weight \in Weights, full_text_weight \in Weights,
             metadata_filters \in MetadataFilters :
               Search(query, semantic_weight, full_text_weight, metadata_filters)
    \/ /\ pc = "ready"
       /\ \E file_ids \in FilterLists, file_names \in FilterLists :
               ListFiles(file_ids, file_names)
    \/ /\ pc \in PostPcs
       /\ \E response \in AllErrorResponses \cup { OkResponse } : Post(response)
    \/ /\ pc = "ready"
       /\ \E file_id \in DeleteFileIds : DeleteFile(file_id)
    \/ /\ pc = "delete_file"
       /\ \E response \in AllErrorResponses \cup { OkResponse } : Delete(response)
    \/ /\ pc = "ready"
       /\ \E contents \in SeqsUpTo(TextSamples, MaxTexts), file_names \in TextFileNames,
             linesep \in LineSeps :
               UploadTexts(contents, file_names, linesep)
    \/ /\ pc = "ready"
       /\ \E is_dir \in BOOLEAN, all_files \in DirListings,
             dir_metadata \in DirMetadata, chunk_size \in ChunkSizes :
               UploadFromDirectory(is_dir, all_files, dir_metadata, chunk_size)
    \/ /\ pc = "ready"
       /\ \E api_key \in ApiKeyArgs, base_url \in BaseUrlArgs, environ \in Environs :
               OneContext(api_key, base_url, environ)

Spec == Init /\ [][Next]_vars

(***************************************************************************)
(* Properties.                                                             *)
(***************************************************************************)
Called == pc # "ready"
Done == pc = "done"

\* len(file_paths)
NumFiles == Len(file_paths) + extra_paths

\* the commit requests sent so far
CommitRequests == { r \in requests : r.to = "upload_processed" }

\* the positions in a commit request's files at which the slot with this id is
PositionsOf(id, r) == { j \in 1..Len(r.files) : r.files[j].fileId = id }

\* the errors raised by lines 297-308
ValidationErrors ==
    { "TooManyFiles", "FileNotFound", "UnsupportedFileType", "CountMismatch",
      "NotSerializable", "InvalidKey" }

\* the paths pass lines 297-300
PathsValid ==
    /\ NumFiles <= MAX_UPLOAD
    /\ \A i \in 1..Len(file_paths) : parse_file_path(file_paths[i]) = "ok"

\* C1: whenever upload_files returns, the list has exactly one id per input
\* file and its i-th element is the id of the slot at position i.
C1_OneIdPerFileInOrder ==
    result.kind = "returned" =>
        /\ Len(result.ids) = NumFiles
        /\ \A i \in 1..Len(result.ids) :
              /\ i <= Len(upload_files_spec)
              /\ result.ids[i] = upload_files_spec[i].fileId

\* the metadata entry i as the service must record it
ExpectedMetadata(i) ==
    IF flatten_metadata THEN flatten_dict(metadata[i], <<>>, <<"_">>)
    ELSE metadata[i]

\* C2: when upload_files(F, M) with len(M) = len(F) returns, every slot was
\* sent in exactly one commit request, once, and there it carries the
\* metadata M[i] (flattened when asked) of the file at its position i and
\* the id returned at position i.
C2_EachSlotCommittedOnceWithItsMetadata ==
    (result.kind = "returned" /\ metadata # <<>> /\ Len(metadata) = NumFiles) =>
        \A i \in 1..Len(result.ids) :
            LET carrying == { r \in CommitRequests : PositionsOf(result.ids[i], r) # {} }
            IN /\ Cardinality(carrying) = 1
               /\ \A r \in carrying :
                     /\ Cardinality(PositionsOf(result.ids[i], r)) = 1
                     /\ \A j \in PositionsOf(result.ids[i], r) :
                           r.files[j].metadataJson = ExpectedMetadata(i)

C2_Witness ==
    /\ result.kind = "returned"
    /\ Len(result.ids) = 2
    /\ Len(metadata) = 2
    /\ metadata[1] # metadata[2]
    /\ flatten_metadata
    /\ ExpectedMetadata(2) # metadata[2]
    /\ Cardinality(CommitRequests) = 2

\* C3 as stated: non-empty F and non-empty M of different lengths make
\* upload_files raise the count-mismatch error, with no request sent.
C3_CountMismatchRaised ==
    (Called /\ NumFiles > 0 /\ metadata # <<>> /\ Len(metadata) # NumFiles) =>
        /\ result = Raised("CountMismatch", 0)
        /\ requests = {}

\* C3 amended: such a call raises a validation error with no request sent;
\* the error is the count-mismatch error whenever F passes the size check
\* and the path checks, which come first.
C3_MismatchRaisesBeforeNetwork ==
    (Called /\ NumFiles > 0 /\ metadata # <<>> /\ Len(metadata) # NumFiles) =>
        /\ Done
        /\ result.kind = "raised"
        /\ result.error \in { "TooManyFiles", "FileNotFound", "UnsupportedFileType",
                              "CountMismatch" }
        /\ PathsValid <=> result.error = "CountMismatch"
        /\ requests = {}

C3_Witness ==
    /\ Len(file_paths) = 2
    /\ Len(metadata) = 1
    /\ result = Raised("CountMismatch", 0)

\* C4: a call that ends in a validation error has sent no request.
C4_ValidationBeforeNetwork ==
    (result.kind = "raised" /\ result.error \in ValidationErrors) => requests = {}

C4_Witness ==
    /\ result.kind = "raised"
    /\ result.error = "InvalidKey"
    /\ Len(file_paths) = 2
    /\ PathsValid

\* a reserved key at the top level of the dict
HasReservedKey(m) == \E i \in 1..Len(m.items) : m.items[i].k \in ReservedKeys

\* C5: a metadata dict with a reserved top-level key makes upload_files
\* raise before any request is sent.
C5_ReservedKeyRaises ==
    (Called /\ \E i \in 1..Len(metadata) : HasReservedKey(metadata[i])) =>
        /\ requests = {}
        /\ Done => result.kind = "raised"

\* some key of the value, at any depth, has one of the bad characters
RECURSIVE BadKeyAtAnyDepth(_)
BadKeyAtAnyDepth(v) ==
    CASE v.t = "dict" ->
            \E i \in 1..Len(v.items) :
                HasBadChar(v.items[i].k) \/ BadKeyAtAnyDepth(v.items[i].v)
      [] v.t = "list" -> \E i \in 1..Len(v.elems) : BadKeyAtAnyDepth(v.elems[i])
      [] OTHER -> FALSE

\* C6: a metadata dict with '.', '-' or '\' in a key at any nesting depth
\* makes upload_files raise, flattening or not.
C6_BadKeyAtAnyDepthRaises ==
    (Done /\ \E i \in 1..Len(metadata) : BadKeyAtAnyDepth(metadata[i])) =>
        result.kind = "raised"

\* C7: a commit request is sent only after every transfer of the call
\* returned successfully; once a transfer failed none is ever sent.
C7_NoCommitBeforeAllTransfersSucceed ==
    CommitRequests # {} => \A i \in 1..Len(uploads) : uploads[i] = "ok"

C7_Witness ==
    /\ CommitRequests # {}
    /\ Len(uploads) = 2
    /\ \E i \in 1..Len(attempts) : Len(attempts[i]) > 1

\* C8 as stated: no file is PUT more than 3 times.
C8_AtMostThreeAttempts ==
    \A i \in 1..Len(attempts) : Len(attempts[i]) <= 3

\* C8 amended: no file is PUT more than 4 times, the first attempt and the
\* 3 retries of Retry(total=3).
C8_AtMostFourAttempts ==
    \A i \in 1..Len(attempts) :
        /\ Len(attempts[i]) <= RetryTotal + 1
        /\ Cardinality({ r \in requests : r.op = "PUT" /\ r.i = i }) = Len(attempts[i])

C8_Witness ==
    \E i \in 1..Len(attempts) :
        /\ Len(attempts[i]) = RetryTotal + 1
        /\ \A a \in 1..Len(attempts[i]) : attempts[i][a] = 503

\* the first PUT of file i got a status that is neither 200 nor retried
FirstAttemptRejected(i) ==
    /\ attempts[i] # <<>>
    /\ attempts[i][1] # 200
    /\ attempts[i][1] \notin status_forcelist

RetriesExhausted(i) ==
    /\ Len(attempts[i]) = RetryTotal + 1
    /\ \A a \in 1..Len(attempts[i]) : attempts[i][a] \in status_forcelist

\* C11: when the transfer of a file is answered 502/503/504 until the
\* retries are used up (and no earlier file failed), upload_files fails
\* with the transfer error that names this file, the error it raises for a
\* status that is not retried.
C11_ExhaustedFileIsNamed ==
    \A i \in 1..Len(attempts) :
        (Done /\ RetriesExhausted(i) /\ \A j \in 1..(i - 1) : uploads[j] = "ok") =>
            /\ result.kind = "raised"
            /\ result.error = "UploadFailed"
            /\ result.file = i

\* some transfer failed
SomeTransferFailed == \E i \in 1..Len(uploads) : FutureFailed(uploads[i])

BatchSize(batch) == SumSeq([i \in 1..Len(batch) |-> ItemSize(batch[i])])

\* the batches joined in yield order
RECURSIVE Concat(_)
Concat(bs) == IF bs = <<>> THEN <<>> ELSE Head(bs) \o Concat(Tail(bs))

BatchCalled == call.op = "batch_by_size"

\* C13 as stated: no batch yielded by batch_by_size has a cumulative
\* serialized size above the cap.
C13_NoBatchAboveCap ==
    BatchCalled =>
        \A b \in 1..Len(value.batches) :
            BatchSize(value.batches[b]) <= SizeLimit(call.max_size_mb)

\* C13 amended: a batch is above the cap only when it is a single item
\* whose own size is above the cap; every batch of two or more items is
\* within the cap.
C13_OnlySingleItemAboveCap ==
    BatchCalled =>
        \A b \in 1..Len(value.batches) :
            \/ BatchSize(value.batches[b]) <= SizeLimit(call.max_size_mb)
            \/ /\ Len(value.batches[b]) = 1
               /\ ItemSize(value.batches[b][1]) > SizeLimit(call.max_size_mb)

C13_Witness ==
    /\ BatchCalled
    /\ call.max_size_mb = BatchMaxSizeMb
    /\ \E b \in 1..Len(value.batches) :
          BatchSize(value.batches[b]) > SizeLimit(call.max_size_mb)
    /\ \E b \in 1..Len(value.batches) :
          /\ Len(value.batches[b]) > 1
          /\ b < Len(value.batches)

\* C14: the batches of batch_by_size joined in yield order are the input
\* list: every item is in exactly one batch and the order is kept; so the
\* commit batches of upload_files are the slots in their order.
C14_BatchesPartitionTheInput ==
    /\ BatchCalled => Concat(value.batches) = call.items
    /\ pc = "commit" => Concat(batches) = upload_files_spec

C14_Witness ==
    /\ BatchCalled
    /\ Len(call.items) = 4
    /\ Len(value.batches) = 3
    /\ Len(value.batches[2]) = 2

\* some commit request failed
SomeCommitFailed == \E b \in 1..Len(commits) : FutureFailed(commits[b])

\* what upload_files sends: the slot request, the PUTs, the commit requests
UploadRequestKinds ==
    { << "POST", "upload_url" >>, << "PUT", "presigned" >>,
      << "POST", "upload_processed" >> }

\* C15: when a commit batch request fails, upload_files raises and returns
\* no file ids, and sends no compensating request: the requests of the
\* batches already accepted stand and no delete request is sent.
C15_CommitFailureRaisesWithoutRollback ==
    SomeCommitFailed =>
        /\ result.kind # "returned"
        /\ Done => (result.kind = "raised" /\ result.ids = <<>>)
        /\ \A r \in requests : << r.op, r.to >> \in UploadRequestKinds
        /\ \A b \in 1..Len(commits) :
              commits[b] = "ok" =>
                  CommitRequest(b) \in requests

C15_Witness ==
    /\ Done
    /\ Len(commits) = 2
    /\ commits[1] = "ok"
    /\ commits[2] = "HTTPError"
    /\ result = Raised("HTTPError", 0)
    /\ Cardinality(CommitRequests) = 2

\* one item per leaf (value that is not a dict) of a dict, keyed by the keys
\* on the path to it joined with "_", in the order the leaves are visited
RECURSIVE LeafItems(_, _, _)
LeafItems(its, path, top) ==
    IF its = <<>> THEN <<>>
    ELSE LET k == IF top THEN Head(its).k ELSE path \o <<"_">> \o Head(its).k
             v == Head(its).v
         IN (IF IsDict(v) THEN LeafItems(v.items, k, FALSE) ELSE << Item(k, v) >>)
            \o LeafItems(Tail(its), path, top)

\* C16: flatten_dict(d) has exactly one entry per leaf of d, keyed by the
\* "_"-joined path to the leaf, in the order the leaves are visited: no
\* key/value pair is lost.
C16_OneEntryPerLeaf ==
    call.op = "flatten_dict" =>
        value.dict.items = LeafItems(call.dict_.items, <<>>, TRUE)

\* the requests sent to an endpoint
RequestsTo(to) == { r \in requests : r.to = to }

\* the ValueErrors of lines 552-562
SearchErrors ==
    { "EmptyQuery", "SemanticWeightRange", "FullTextWeightRange", "BothWeightsZero" }

\* the call to search must be refused: the query is empty, a weight is
\* outside [0, 1], or both weights are zero
SearchRefused ==
    \/ call.query = <<>>
    \/ call.semantic_weight < 0 \/ call.semantic_weight > 10
    \/ call.full_text_weight < 0 \/ call.full_text_weight > 10
    \/ call.semantic_weight = 0 /\ call.full_text_weight = 0

C18_BothFiltersRejected ==
    (call.op = "list_files" /\ call.file_ids.t # "None" /\ call.file_names.t # "None") =>
        /\ Done
        /\ result = Raised("BothFilters", 0)
        /\ requests = {}

\* C18 amended: a list_files call whose file_ids and file_names are both
\* non-empty lists is rejected with an error and sends no request; a call
\* where either is None or an empty list is not rejected and sends its one
\* request.
C18_BothNonEmptyFiltersRejected ==
    call.op = "list_files" =>
        IF Truthy(call.file_ids) /\ Truthy(call.file_names)
        THEN /\ Done
             /\ result = Raised("BothFilters", 0)
             /\ requests = {}
        ELSE /\ result.error # "BothFilters"
             /\ pc = "list_files" => requests = {}
             /\ Done => (Cardinality(requests) = 1 /\ RequestsTo("list_files") = requests)

C18_Witness ==
    /\ call.op = "list_files"
    /\ call.file_ids = List(<< Str("f1", 2) >>)
    /\ call.file_names = List(<< Str("f1", 2) >>)
    /\ result = Raised("BothFilters", 0)
    /\ requests = {}

\* _handle_response was given a response that is not a success
ErrorHandled == last_response # NoResponse /\ ~last_response.ok

Constructed == call.op = "OneContext"

\* the API key by precedence: the argument if given, else the variable
ApiKeyByPrecedence ==
    IF ~IsNone(call.api_key) THEN call.api_key
    ELSE call.environ.ONECONTEXT_API_KEY

\* construction raised ConfigurationError with no Transport and no request
RaisedBeforeTransport ==
    /\ result = Raised("ConfigurationError", 0)
    /\ value = NoValue
    /\ requests = {}

\* C20 as stated: the API key is the argument if given, else the variable
\* ONECONTEXT_API_KEY; the base URL is the argument if given, else
\* ONECONTEXT_BASE_URL, else the default; construction raises
\* ConfigurationError, with no Transport created and no request sent,
\* exactly when neither source has an API key.
C20_ArgumentThenEnvironmentThenDefault ==
    Constructed =>
        IF IsNone(ApiKeyByPrecedence) THEN RaisedBeforeTransport
        ELSE /\ result.kind # "raised"
             /\ value._client.api_key = ApiKeyByPrecedence
             /\ value._urls.base_url.s =
                   (IF ~IsNone(call.base_url) THEN call.base_url
                    ELSE IF ~IsNone(call.environ.ONECONTEXT_BASE_URL)
                    THEN call.environ.ONECONTEXT_BASE_URL
                    ELSE DefaultBaseUrl).s

\* C20 amended: the API key is the argument if given, else the variable
\* ONECONTEXT_API_KEY; the base URL is the argument if it is a non-empty
\* string, the variable ONECONTEXT_BASE_URL if the argument is not given
\* and the variable is set and non-empty, and the default in every other
\* case (an empty argument included: the variable is not read then);
\* construction raises ConfigurationError, with no Transport created and
\* no request sent, exactly when neither source has an API key.
C20_NonEmptyArgumentThenEnvironmentThenDefault ==
    Constructed =>
        IF IsNone(ApiKeyByPrecedence) THEN RaisedBeforeTransport
        ELSE /\ result.kind # "raised"
             /\ value._client.api_key = ApiKeyByPrecedence
             /\ value._urls.base_url.s =
                   (IF ~Falsy(call.base_url) THEN call.base_url
                    ELSE IF IsNone(call.base_url) /\ ~Falsy(call.environ.ONECONTEXT_BASE_URL)
                    THEN call.environ.ONECONTEXT_BASE_URL
                    ELSE DefaultBaseUrl).s

C20_Witness ==
    /\ Constructed
    /\ IsNone(call.api_key)
    /\ call.environ.ONECONTEXT_API_KEY = Str("env_key", 7)
    /\ call.base_url = Str("arg_url", 7)
    /\ call.environ.ONECONTEXT_BASE_URL = Str("env_url", 7)
    /\ value._client.api_key = Str("env_key", 7)
    /\ value._urls.base_url = Str("arg_url", 7)

TextsCalled == call.op = "upload_texts"

\* the PUT requests sent so far
PutRequests == { r \in requests : r.op = "PUT" }

\* C21: for every text s uploaded with upload_texts, the bytes PUT to the
\* presigned URL of its file are exactly the UTF-8 encoding of s.
C21_PutBytesAreUtf8OfText ==
    TextsCalled =>
        \A r \in PutRequests : r.bytes = encode(call.contents[r.i])

\* the ValueErrors of lines 407-418
TextErrors == { "NamesMismatch", "NotPlainText", "EmptyString" }

\* upload_texts raised before it wrote a file or sent a request
RaisedBeforeWriting ==
    /\ Done
    /\ result.kind = "raised"
    /\ result.error \in TextErrors
    /\ tmp_files = {}
    /\ requests = {}

\* a given name has no plain-text extension, or a content is empty
BadNameOrEmptyContent ==
    \/ /\ call.file_names.t = "list"
       /\ \E i \in 1..Len(call.file_names.elems) :
             call.file_names.elems[i].suffix \notin plain_text_extensions
    \/ \E i \in 1..Len(call.contents) : call.contents[i] = <<>>

C23_DirectoryChunkSizeIsCommitted ==
    call.op = "upload_from_directory" =>
        \A r \in CommitRequests : r.maxChunkSize = call.max_chunk_size

\* the sizes of the items of a list
Sizes(items) == [i \in 1..Len(items) |-> ItemSize(items[i])]

\* consecutive batches are packed maximally under the cap
Greedy(bs, size_limit) ==
    \A k \in 1..(Len(bs) - 1) :
        /\ bs[k + 1] # <<>>
        /\ BatchSize(bs[k]) + ItemSize(bs[k + 1][1]) > size_limit

\* C24: batch_by_size packs greedily and maximally: for consecutive batches
\* B_k, B_k+1 the size of B_k plus the size of the first item of B_k+1
\* exceeds the cap; sizes [1MB, 1MB, 1.5MB, 0.4MB] under a 3 MB cap give
\* [[1MB, 1MB], [1.5MB, 0.4MB]].
C24_BatchesAreGreedy ==
    /\ BatchCalled => Greedy(value.batches, SizeLimit(call.max_size_mb))
    /\ pc = "commit" => Greedy(batches, SizeLimit(BatchMaxSizeMb))
    /\ (/\ BatchCalled
        /\ Sizes(call.items) = << Mb1, Mb1, Mb1_5, Mb0_4 >>
        /\ call.max_size_mb = 3)
        => value.batches = << SubSeq(call.items, 1, 2), SubSeq(call.items, 3, 4) >>

C24_Witness ==
    /\ BatchCalled
    /\ Sizes(call.items) = << Mb1, Mb1, Mb1_5, Mb0_4 >>
    /\ call.max_size_mb = 3
    /\ Len(value.batches) = 2

\* the item is in a batch of its own and in no other batch
AloneInItsBatch(item, bs) ==
    /\ \E b \in 1..Len(bs) : bs[b] = << item >>
    /\ Cardinality({ b \in 1..Len(bs) :
                        \E j \in 1..Len(bs[b]) : bs[b][j].fileId = item.fileId }) = 1

\* no batch is empty and every item above the cap is alone in its batch
NoEmptyNoSplit(items, bs, size_limit) ==
    /\ \A b \in 1..Len(bs) : bs[b] # <<>>
    /\ \A i \in 1..Len(items) :
          ItemSize(items[i]) > size_limit => AloneInItsBatch(items[i], bs)

\* C25: batch_by_size never yields an empty batch, and an item whose own
\* size is above the cap is neither dropped nor split: it is yielded in a
\* batch that contains only it.
C25_NoEmptyBatchOversizedAlone ==
    /\ BatchCalled =>
          NoEmptyNoSplit(call.items, value.batches, SizeLimit(call.max_size_mb))
    /\ pc = "commit" =>
          NoEmptyNoSplit(upload_files_spec, batches, SizeLimit(BatchMaxSizeMb))

C25_Witness ==
    /\ BatchCalled
    /\ call.max_size_mb = BatchMaxSizeMb
    /\ Len(call.items) = 3
    /\ ItemSize(call.items[1]) > SizeLimit(call.max_size_mb)
    /\ ItemSize(call.items[2]) <= SizeLimit(call.max_size_mb)
    /\ Len(value.batches) = 2

\* the slot request was answered with a list of slots
SlotsAnswered ==
    \/ pc \in { "transfer", "commit" }
    \/ /\ Done
       /\ Request("POST", "upload_url", 0, 0, <<>>) \in requests
       /\ (result.kind = "returned" \/ uploads # <<>>)

\* the answer holds fewer slots than file names were sent
FewerSlots == SlotsAnswered /\ Len(upload_files_spec) < NumFiles

\* C26: when the slot response holds k < n slots for n file names,
\* upload_files raises nothing for it: only the first k files are
\* transferred and committed (paired by position), k ids are returned, and
\* the other n - k files are neither transferred nor registered.
C26_FewerSlotsUploadsAPrefix ==
    FewerSlots =>
        LET k == Len(upload_files_spec)
        IN /\ Len(uploads) = k
           /\ \A r \in PutRequests : r.i \in 1..k
           /\ \A r \in CommitRequests : \A j \in 1..Len(r.files) :
                 \E i \in 1..k : r.files[j].fileId = upload_files_spec[i].fileId
           /\ result.kind = "raised" => (SomeTransferFailed \/ SomeCommitFailed)
           /\ (Done /\ ~SomeTransferFailed /\ ~SomeCommitFailed) =>
                 /\ result = Returned(FileIdsOf(upload_files_spec))
                 /\ Len(result.ids) = k
           /\ result.kind = "returned" =>
                 \A i \in 1..k :
                    /\ \E r \in PutRequests : r.i = i
                    /\ \E r \in CommitRequests : \E j \in 1..Len(r.files) :
                          r.files[j].fileId = upload_files_spec[i].fileId

C26_Witness ==
    /\ Done
    /\ FewerSlots
    /\ NumFiles = 2
    /\ Len(upload_files_spec) = 1
    /\ result.kind = "returned"
    /\ Len(result.ids) = 1
    /\ \E r \in PutRequests : r.i = 1

\* the positions of the files whose transfer failed
FailedTransfers == { i \in 1..Len(uploads) : FutureFailed(uploads[i]) }

\* the smallest position of a failed transfer
FirstFailed == CHOOSE i \in FailedTransfers : \A j \in FailedTransfers : i <= j

\* C27: when several transfers of one call fail, the error raised is the
\* one of the failed file with the smallest position in the input list,
\* whatever the order in which the workers finished; the failures of later
\* files are not reported.
C27_FirstFailedFileIsRaised ==
    /\ (pc = "transfer" /\ raised # NoResult) =>
          /\ FailedTransfers # {}
          /\ raised = Raised(uploads[FirstFailed],
                             FileNamedBy(uploads[FirstFailed], FirstFailed))
    /\ (Done /\ SomeTransferFailed) =>
          result = Raised(uploads[FirstFailed],
                          FileNamedBy(uploads[FirstFailed], FirstFailed))

C27_Witness ==
    /\ Done
    /\ uploads = << "RetryError", "UploadFailed" >>
    /\ result.kind = "raised"
    /\ result.error = "RetryError"

\* file i is in a commit request with an empty metadata object
CommittedEmpty(i) ==
    \E r \in CommitRequests : \E j \in 1..Len(r.files) :
        /\ r.files[j].fileName = file_paths[i].name
        /\ r.files[j].metadataJson = Dict(<<>>)

\* C28: with metadata None or [] and any number of files, no count-mismatch
\* error is raised and, when the call returns, every file was committed
\* with an empty metadata object.
C28_NoMetadataCommitsEveryFileEmpty ==
    (Called /\ metadata = <<>> /\ file_paths # <<>>) =>
        /\ result.error # "CountMismatch"
        /\ result.kind = "returned" =>
              \A i \in 1..Len(file_paths) : CommittedEmpty(i)

\* the requests sent through the ApiClient
TransportRequests == { r \in requests : r.to # "presigned" }

\* the header names of a request
HeaderNames(r) == { h.name : h \in r.headers }

UploadRunning == pc \in { "slots", "transfer", "commit" }

\* the phases of a call, counted down to its end
PhaseRank ==
    CASE pc = "ready" -> 4
      [] pc \in { "slots", "search", "list_files", "delete_file" } -> 3
      [] pc = "transfer" -> 2
      [] pc = "commit" -> 1
      [] OTHER -> 0

\* the steps transfer i can still take: its start, its RetryTotal + 1
\* requests, its end
TransferWork(i) ==
    CASE uploads[i] = "pending" -> RetryTotal + 3
      [] uploads[i] = "running" -> RetryTotal + 2 - Len(attempts[i])
      [] OTHER -> 0

\* the steps commit b can still take: its start and its one request
CommitWork(b) ==
    CASE commits[b] = "pending" -> 2
      [] commits[b] = "running" -> 1
      [] OTHER -> 0

\* the steps the current phase can still take
PhaseWork ==
    CASE pc = "transfer" ->
           (IF raised = NoResult THEN 1 ELSE 0)
           + SumSeq([i \in 1..Len(uploads) |-> TransferWork(i)])
      [] pc = "commit" ->
           (IF raised = NoResult THEN 1 ELSE 0)
           + SumSeq([b \in 1..Len(commits) |-> CommitWork(b)])
      [] OTHER -> 0

\* a step moves to a later phase or uses up one of the phase's steps
Decreases ==
    \/ PhaseRank' < PhaseRank
    \/ PhaseRank' = PhaseRank /\ PhaseWork' < PhaseWork

\* C30: every call of upload_files ends, returning or raising, provided
\* every request gets a response: no file is sent more than RetryTotal + 1
\* times, every step uses up one of finitely many steps left, and until
\* the call has ended some step can be taken (no phase waits on a worker
\* that was never started).
C30_UploadFilesTerminates ==
    /\ [](\A i \in 1..Len(attempts) : Len(attempts[i]) <= RetryTotal + 1)
    /\ [](PhaseWork >= 0)
    /\ [](UploadRunning => ENABLED Next)
    /\ [][Decreases]_vars

C30_Witness ==
    /\ Done
    /\ result.kind = "returned"
    /\ Len(uploads) = 2
    /\ \E i \in 1..Len(attempts) : Len(attempts[i]) = RetryTotal + 1
    /\ CommitRequests # {}

=============================================================================
